---- MODULE Spec2Model ----
(***************************************************************************)
(* Thea :: Algorithms :: ImplicitSurfaceMesher                             *)
(*                                                                         *)
(* A state machine of the two entry points meshBloomenthal and             *)
(* meshBoissonnatOudot and of the two exportMesh overloads they end in.    *)
(* The polygonizer, CGAL's make_mesh_3 and the target mesh behind          *)
(* IncrementalMeshBuilder are opaque collaborators: what they return is    *)
(* drawn nondeterministically, element by element as the export reads it   *)
(* (every raw element is read exactly once, so this is the same as drawing *)
(* the whole result when the algorithm returns).                           *)
(***************************************************************************)
EXTENDS Integers, Sequences, FiniteSets, TLC

(***************************************************************************)
(* Bounds of the model.                                                    *)
(***************************************************************************)
\* most raw vertices the Bloomenthal polygonizer returns
MaxRawVerts == 2
\* most raw triangles the Bloomenthal polygonizer returns
MaxTris == 2
\* most finite vertices in the CGAL triangulation
MaxFinite == 3
\* most surface facets in the CGAL complex
MaxFacets == 2
\* significant bits of the model's single-precision numbers (24 in C++)
FloatMantBits == 3

(***************************************************************************)
(* Program constants (in the units of the quantity they belong to).        *)
(***************************************************************************)
\* bounding_ball.getRadius() / 10.0
CellSizeDivisor == 10
\* max_search_steps < 0 ? 10
DefaultSearchSteps == 10
\* min_facet_angle < 0 ? 30 (degrees)
DefaultFacetAngle == 30
\* min_delaunay_radius < 0 ? 0.1, in tenths
DefaultFacetSize == 1
\* min_center_separation < 0 ? 0.1, in tenths
DefaultFacetDistance == 1
\* params::cell_radius_edge_ratio(2.0)
CellRadiusEdgeRatio == 2
\* the default constructor arguments of both option structs: -1
DefaultOption == -1

NULL == "NULL"
\* the handle value the builder's isValid...Handle predicates reject
InvalidHandle == 0
\* the infinite vertex of the triangulation: not a finite vertex
InfiniteVertex == 0

(***************************************************************************)
(* Numbers.  A double is an integer number of ticks; a float keeps only    *)
(* FloatMantBits significant bits of it, rounding to nearest, ties to even.*)
(***************************************************************************)
RECURSIVE BitLen(_)
BitLen(x) == IF x = 0 THEN 0 ELSE 1 + BitLen(x \div 2)

RECURSIVE Pow2(_)
Pow2(n) == IF n = 0 THEN 1 ELSE 2 * Pow2(n - 1)

RoundToStep(x, step) ==
    LET q == x \div step
        r == x % step
    IN  IF 2 * r > step \/ (2 * r = step /\ q % 2 = 1)
        THEN (q + 1) * step ELSE q * step

Abs(x) == IF x < 0 THEN -x ELSE x

\* (float) x
ToFloat(x) ==
    LET a == Abs(x)
        m == IF BitLen(a) <= FloatMantBits THEN a
             ELSE RoundToStep(a, Pow2(BitLen(a) - FloatMantBits))
    IN  IF x < 0 THEN -m ELSE m

\* a / b in double arithmetic, a >= 0, b > 0: the nearest tick
DivDouble(a, b) ==
    LET q == a \div b
        r == a % b
    IN  IF 2 * r > b \/ (2 * r = b /\ q % 2 = 1) THEN q + 1 ELSE q

\* Math::radiansToDegrees: x * 180 / pi, the radians counted in twelfths of pi
radiansToDegrees(x) == (x * 180) \div 12

(***************************************************************************)
(* Inputs.                                                                 *)
(***************************************************************************)
\* surface_functor: a null pointer, or a functor by its sign at the centre
\* of the bounding ball
Functors == {NULL, "f_negative_at_centre", "f_nonnegative_at_centre"}

\* bounding_ball.getRadius(), in ticks
Radii == {0, 45, 170}

OptionsOf(cs, ms, tc, fa, dr, sep) ==
    [cell_size |-> cs, max_search_steps |-> ms, tetrahedralize_cubes |-> tc,
     min_facet_angle |-> fa, min_delaunay_radius |-> dr,
     min_center_separation |-> sep]

\* Options::Bloomenthal / Options::BoissonnatOudot as default-constructed
DefaultOptions ==
    OptionsOf(DefaultOption, DefaultOption, FALSE,
              DefaultOption, DefaultOption, DefaultOption)

\* cell_size in ticks; max_search_steps
CellSizes == {-2, -1, 0, 1, 9, 17, 20}
SearchSteps == {-2, -1, 0, 1, 10, 11}

\* min_facet_angle in twelfths of pi; min_delaunay_radius and
\* min_center_separation in tenths
FacetAngles == {-2, -1, 0, 2, 6}
DelaunayRadii == {-2, -1, 0, 1, 3}
CenterSeparations == {-2, -1, 0, 1, 3}

AllBloomenthalOptions ==
    { OptionsOf(cs, ms, tc, DefaultOption, DefaultOption, DefaultOption) :
        cs \in CellSizes, ms \in SearchSteps, tc \in BOOLEAN }

AllBoissonnatOudotOptions ==
    { OptionsOf(DefaultOption, DefaultOption, FALSE, fa, dr, sep) :
        fa \in FacetAngles, dr \in DelaunayRadii, sep \in CenterSeparations }

(***************************************************************************)
(* The target mesh behind Graphics::IncrementalMeshBuilder.  A vertex      *)
(* handle is the vertex's place in verts, a face handle the face's place   *)
(* in faces.  An insertion is either accepted (the element is appended and *)
(* its handle returned) or rejected (an invalid handle is returned).       *)
(***************************************************************************)
EmptyMesh == [verts |-> << >>, faces |-> << >>]

NoData == [of |-> "none", at |-> 0]

\* a mesh with k vertices and k faces in it
PriorMesh(k) ==
    [verts |-> [j \in 1..k |-> [pos |-> [of |-> "prior", at |-> j],
                                index |-> NoData, normal |-> NoData]],
     faces |-> [j \in 1..k |-> <<j, 1, k>>]]

\* the target meshes a caller hands in: an empty one, and one with content
PriorMeshes == {EmptyMesh, PriorMesh(2)}

isValidVertexHandle(h) == h # InvalidHandle

isValidFaceHandle(h) == h # InvalidHandle

addVertex(m, data, accept) ==
    IF accept
    THEN [mesh |-> [m EXCEPT !.verts = Append(@, data)], ret |-> Len(m.verts) + 1]
    ELSE [mesh |-> m, ret |-> InvalidHandle]

addFace(m, vx, accept) ==
    IF accept
    THEN [mesh |-> [m EXCEPT !.faces = Append(@, vx)], ret |-> Len(m.faces) + 1]
    ELSE [mesh |-> m, ret |-> InvalidHandle]

\* one entry of the log of calls made on the builder
Call(op, args, ret) == [op |-> op, args |-> args, ret |-> ret]

(***************************************************************************)
(* State.                                                                  *)
(***************************************************************************)
VARIABLES
    pc,              \* where the entry point is
    alg,             \* which entry point was called
    surface_functor, \* the argument of the call
    radius,          \* bounding_ball.getRadius()
    options,         \* the options argument
    func,            \* BloomenthalEval::func / CgalEval::func
    polygonizer,     \* the Polygonizer: constructor and march arguments, result sizes
    criteria,        \* the Mesh_criteria passed to make_mesh_3
    c3t3,            \* the complex make_mesh_3 returned: its sizes
    i,               \* the running loop index of exportMesh
    vertices,        \* Array<VertexHandle> vertices of the Bloomenthal export
    vmap,            \* VertexMap vmap of the C3t3 export
    triangles,       \* the raw triangles get_triangle has returned so far
    facet,           \* *fit, the facet the facet loop is at
    calls,           \* the calls made on the builder in this export, in order
    mesh,            \* the target mesh
    mesh0,           \* the target mesh as it was when the entry point was called
    err              \* the error the call ended with

vars == <<pc, alg, surface_functor, radius, options, func,
          polygonizer, criteria, c3t3, i, vertices, vmap, triangles, facet,
          calls, mesh, mesh0, err>>

NoPolygonizer ==
    [made |-> FALSE, size |-> 0, bounds |-> 0, marched |-> FALSE,
     tetrahedralize_cubes |-> FALSE, no_vertices |-> 0, no_triangles |-> 0]

NoCriteria ==
    [made |-> FALSE, facet_angle |-> 0, facet_size |-> 0, facet_distance |-> 0,
     cell_radius_edge_ratio |-> 0]

NoFacet == [cell |-> <<0, 0, 0, 0>>, index |-> 0]

NoC3t3 == [made |-> FALSE, finite_vertices |-> 0, facets |-> 0]

Init ==
    /\ pc = "idle"
    /\ alg = "none"
    /\ surface_functor = NULL
    /\ radius = 0
    /\ options = DefaultOptions
    /\ func = "unset"
    /\ polygonizer = NoPolygonizer
    /\ criteria = NoCriteria
    /\ c3t3 = NoC3t3
    /\ i = 0
    /\ vertices = << >>
    /\ vmap = << >>
    /\ triangles = << >>
    /\ facet = NoFacet
    /\ calls = << >>
    /\ mesh \in PriorMeshes
    /\ mesh0 = mesh
    /\ err = "none"

(***************************************************************************)
(* meshBloomenthal                                                         *)
(***************************************************************************)
\* the call: the arguments are bound, nothing has run
CallBloomenthal(Fs, Rs, Opts) ==
    /\ pc = "idle"
    /\ \E f \in Fs, r \in Rs, o \in Opts :
         /\ surface_functor' = f
         /\ radius' = r
         /\ options' = o
    /\ alg' = "Bloomenthal"
    /\ mesh0' = mesh
    /\ pc' = "bl_eval"
    /\ UNCHANGED <<func, polygonizer, criteria, c3t3, i, vertices, vmap,
                   triangles, facet, calls, mesh, err>>

\* alwaysAssertM(func, ...) of BloomenthalEval's constructor
BloomenthalEvalAccepts(func_) == func_ # NULL

\* BloomenthalEval<FunctorT> func(surface_functor)
BloomenthalEvalCtor ==
    /\ pc = "bl_eval"
    /\ func' = surface_functor
    /\ IF BloomenthalEvalAccepts(surface_functor)
       THEN pc' = "bl_polygonizer" /\ err' = err
       ELSE pc' = "failed" /\ err' = "assertion"
    /\ UNCHANGED <<alg, surface_functor, radius, options, polygonizer, criteria,
                   c3t3, i, vertices, vmap, triangles, facet, calls, mesh, mesh0>>

\* mutant: zero is taken for the sentinel too
ResolveCellSizeZeroSentinel(cell_size, r) ==
    ToFloat(IF cell_size <= 0 THEN DivDouble(r, CellSizeDivisor) ELSE cell_size)

\* float size = (float)(options.cell_size < 0 ? radius / 10.0 : options.cell_size)
ResolveCellSize(cell_size, r) ==
    ToFloat(IF cell_size < 0 THEN DivDouble(r, CellSizeDivisor) ELSE cell_size)

\* int bounds = options.max_search_steps < 0 ? 10 : options.max_search_steps
ResolveSearchSteps(max_search_steps) ==
    IF max_search_steps < 0 THEN DefaultSearchSteps ELSE max_search_steps

\* Polygonizer polygonizer(&func, size, bounds)
ConstructPolygonizer ==
    /\ pc = "bl_polygonizer"
    /\ polygonizer' = [polygonizer EXCEPT
                         !.made = TRUE,
                         !.size = ResolveCellSize(options.cell_size, radius),
                         !.bounds = ResolveSearchSteps(options.max_search_steps)]
    /\ pc' = "bl_march"
    /\ UNCHANGED <<alg, surface_functor, radius, options, func, criteria, c3t3, i,
                   vertices, vmap, triangles, facet, calls, mesh, mesh0, err>>

\* the flag meshBloomenthal hands to march
MarchFlag(o) == o.tetrahedralize_cubes

\* polygonizer.march(options.tetrahedralize_cubes, seed): the opaque traversal
\* leaves any number of raw vertices and raw triangles
March(maxVerts, maxTris) ==
    /\ pc = "bl_march"
    /\ \E nv \in 0..maxVerts, nt \in 0..maxTris :
         polygonizer' = [polygonizer EXCEPT
                           !.marched = TRUE,
                           !.tetrahedralize_cubes = MarchFlag(options),
                           !.no_vertices = nv,
                           !.no_triangles = nt]
    /\ pc' = "bl_begin"
    /\ UNCHANGED <<alg, surface_functor, radius, options, func, criteria, c3t3, i,
                   vertices, vmap, triangles, facet, calls, mesh, mesh0, err>>

(***************************************************************************)
(* exportMesh(BloomenthalPolygonizer::Polygonizer &, MeshT &)              *)
(***************************************************************************)
\* builder.begin()
Begin(cs) == Append(cs, Call("begin", << >>, 0))

\* mutant: the export returns without closing the bracket
EndOmitted(cs) == cs

\* builder.end()
End(cs) == Append(cs, Call("end", << >>, 0))

\* mutant: the export closes the bracket before it throws
AbandonWithEnd(cs) == End(cs)

\* what a throw out of exportMesh adds to the calls made on the builder:
\* nothing, control leaves between begin() and end()
Abandon(cs) == cs

\* mutant: the export undoes its insertions before it throws
UnwindRollsBack(m) == mesh0

\* mutant: the export clears the target mesh before it throws
UnwindClears(m) == EmptyMesh

\* what a throw out of exportMesh leaves of the target mesh: there is no
\* handler and no rollback between the throw and the caller
Unwind(m) == m

\* element idx of a 0-based array
At(arr, idx) == arr[idx + 1]

\* builder.begin()
BloomenthalBegin ==
    /\ pc = "bl_begin"
    /\ calls' = Begin(calls)
    /\ i' = 0
    /\ vertices' = << >>
    /\ pc' = "bl_vertices"
    /\ UNCHANGED <<alg, surface_functor, radius, options, func, polygonizer,
                   criteria, c3t3, vmap, triangles, facet, mesh, mesh0, err>>

\* the arguments of builder.addVertex(p, (intx)i, &n) for raw vertex idx:
\* get_vertex(idx), idx, get_normal(idx)
BloomenthalVertexArgs(idx) ==
    [pos |-> [of |-> "get_vertex", at |-> idx],
     index |-> [of |-> "index", at |-> idx],
     normal |-> [of |-> "get_normal", at |-> idx]]

\* mutant: the handle addVertex returned is never tested
VertexAcceptedUntested(vx) == TRUE

\* the test after addVertex that lets the export go on
VertexAccepted(vx) == isValidVertexHandle(vx)

\* the test after addFace that lets the export go on
FaceAccepted(fh) == isValidFaceHandle(fh)

\* i < polygonizer.no_vertices()
BloomenthalMoreVertices(idx, n) == idx < n

\* mutant: the triangle loop stops one short
BloomenthalMoreTrianglesShort(idx, n) == idx + 1 < n

\* i < polygonizer.no_triangles()
BloomenthalMoreTriangles(idx, n) == idx < n

\* one turn of the vertex loop
BloomenthalAddVertex ==
    /\ pc = "bl_vertices"
    /\ BloomenthalMoreVertices(i, polygonizer.no_vertices)
    /\ \E accept \in BOOLEAN :
         LET args == BloomenthalVertexArgs(i)
             r == addVertex(mesh, args, accept)
             made == Append(calls, Call("addVertex", <<args>>, r.ret))
         IN  /\ calls' = IF VertexAccepted(r.ret) THEN made ELSE Abandon(made)
             /\ IF VertexAccepted(r.ret)
                THEN /\ vertices' = Append(vertices, r.ret)
                     /\ i' = i + 1
                     /\ mesh' = r.mesh
                     /\ UNCHANGED <<pc, err>>
                ELSE /\ pc' = "failed"
                     /\ err' = "Error"
                     /\ mesh' = Unwind(r.mesh)
                     /\ UNCHANGED <<vertices, i>>
    /\ UNCHANGED <<alg, surface_functor, radius, options, func, polygonizer,
                   criteria, c3t3, vmap, triangles, facet, mesh0>>

\* the vertex loop ends
BloomenthalVerticesDone ==
    /\ pc = "bl_vertices"
    /\ ~BloomenthalMoreVertices(i, polygonizer.no_vertices)
    /\ i' = 0
    /\ pc' = "bl_triangles"
    /\ UNCHANGED <<alg, surface_functor, radius, options, func, polygonizer,
                   criteria, c3t3, vertices, vmap, triangles, facet, calls, mesh,
                   mesh0, err>>

\* what get_triangle may return when the polygonizer holds n vertices: any
\* three ints, one below and one above the valid range included
RawTriangles(n) == ((-1)..n) \X ((-1)..n) \X ((-1)..n)

\* mutant: the assertion tests the upper bounds only
TriangleInBoundsNoLower(tri, size) == tri[1] < size /\ tri[2] < size /\ tri[3] < size

\* the condition of the alwaysAssertM on a raw triangle
TriangleInBounds(tri, size) ==
    /\ tri[1] >= 0 /\ tri[1] < size
    /\ tri[2] >= 0 /\ tri[2] < size
    /\ tri[3] >= 0 /\ tri[3] < size

\* mutant: the last two corners are swapped
FaceOfTriangleSwapped(tri, vs) == <<At(vs, tri[1]), At(vs, tri[3]), At(vs, tri[2])>>

\* VertexHandle vx[3] = { vertices[tri.v0], vertices[tri.v1], vertices[tri.v2] }
FaceOfTriangle(tri, vs) == <<At(vs, tri[1]), At(vs, tri[2]), At(vs, tri[3])>>

\* whether idx is an element of the 0-based array
InArray(arr, idx) == idx + 1 \in DOMAIN arr

\* what the three reads vertices[tri.v0], vertices[tri.v1], vertices[tri.v2]
\* can yield: the three elements, or, were an index outside the array, any
\* three values (an out-of-range read of an Array is undefined)
FaceReads(tri, vs) ==
    IF InArray(vs, tri[1]) /\ InArray(vs, tri[2]) /\ InArray(vs, tri[3])
    THEN {FaceOfTriangle(tri, vs)}
    ELSE LET H == 0..(Len(mesh.verts) + 1) IN H \X H \X H

\* one turn of the triangle loop
BloomenthalAddFace ==
    /\ pc = "bl_triangles"
    /\ BloomenthalMoreTriangles(i, polygonizer.no_triangles)
    /\ \E tri \in RawTriangles(polygonizer.no_vertices) :
         /\ triangles' = Append(triangles, tri)
         /\ IF ~TriangleInBounds(tri, Len(vertices))
            THEN /\ pc' = "failed"
                 /\ err' = "assertion"
                 /\ mesh' = Unwind(mesh)
                 /\ calls' = Abandon(calls)
                 /\ UNCHANGED i
            ELSE \E accept \in BOOLEAN, vx \in FaceReads(tri, vertices) :
                 LET r == addFace(mesh, vx, accept)
                     made == Append(calls, Call("addFace", vx, r.ret))
                 IN  /\ calls' = IF FaceAccepted(r.ret) THEN made ELSE Abandon(made)
                     /\ IF FaceAccepted(r.ret)
                        THEN /\ i' = i + 1
                             /\ mesh' = r.mesh
                             /\ UNCHANGED <<pc, err>>
                        ELSE /\ pc' = "failed"
                             /\ err' = "Error"
                             /\ mesh' = Unwind(r.mesh)
                             /\ UNCHANGED i
    /\ UNCHANGED <<alg, surface_functor, radius, options, func, polygonizer,
                   criteria, c3t3, vertices, vmap, facet, mesh0>>

\* the triangle loop ends: builder.end(), and exportMesh returns
BloomenthalEnd ==
    /\ pc = "bl_triangles"
    /\ ~BloomenthalMoreTriangles(i, polygonizer.no_triangles)
    /\ calls' = End(calls)
    /\ pc' = "done"
    /\ UNCHANGED <<alg, surface_functor, radius, options, func, polygonizer,
                   criteria, c3t3, i, vertices, vmap, triangles, facet, mesh,
                   mesh0, err>>

(***************************************************************************)
(* meshBoissonnatOudot                                                     *)
(***************************************************************************)
\* the call: the arguments are bound, nothing has run
CallBoissonnatOudot(Fs, Rs, Opts) ==
    /\ pc = "idle"
    /\ \E f \in Fs, r \in Rs, o \in Opts :
         /\ surface_functor' = f
         /\ radius' = r
         /\ options' = o
    /\ alg' = "BoissonnatOudot"
    /\ mesh0' = mesh
    /\ pc' = "bo_eval"
    /\ UNCHANGED <<func, polygonizer, criteria, c3t3, i, vertices, vmap,
                   triangles, facet, calls, mesh, err>>

\* CgalEval(FunctorT * func_) : func(func_) {}  -- the body tests nothing
CgalEvalAccepts(func_) == TRUE

\* CgalEval<FunctorT> func(surface_functor)
CgalEvalCtor ==
    /\ pc = "bo_eval"
    /\ func' = surface_functor
    /\ IF CgalEvalAccepts(surface_functor)
       THEN pc' = "bo_criteria" /\ err' = err
       ELSE pc' = "failed" /\ err' = "assertion"
    /\ UNCHANGED <<alg, surface_functor, radius, options, polygonizer, criteria,
                   c3t3, i, vertices, vmap, triangles, facet, calls, mesh, mesh0>>

\* mutant: the entry point asserts a negative value at the centre
CentreAcceptedIfNegative(f) == f # "f_nonnegative_at_centre"

\* what meshBoissonnatOudot asks of the functor's value at the centre of the
\* bounding ball before it builds the domain: nothing
CentreAccepted(f) == TRUE

\* params::facet_angle(min_facet_angle < 0 ? 30 : radiansToDegrees(min_facet_angle))
ResolveFacetAngle(o) ==
    IF o.min_facet_angle < 0 THEN DefaultFacetAngle
    ELSE radiansToDegrees(o.min_facet_angle)

\* params::facet_size(min_delaunay_radius < 0 ? 0.1 : min_delaunay_radius)
ResolveFacetSize(o) ==
    IF o.min_delaunay_radius < 0 THEN DefaultFacetSize ELSE o.min_delaunay_radius

\* mutant: the sentinel test reads the neighbouring option
ResolveFacetDistanceByRadius(o) ==
    IF o.min_delaunay_radius < 0 THEN DefaultFacetDistance
    ELSE o.min_center_separation

\* params::facet_distance(min_center_separation < 0 ? 0.1 : min_center_separation)
ResolveFacetDistance(o) ==
    IF o.min_center_separation < 0 THEN DefaultFacetDistance
    ELSE o.min_center_separation

\* the bounding sphere, the implicit domain and the Mesh_criteria
DomainAndCriteria ==
    /\ pc = "bo_criteria"
    /\ IF CentreAccepted(func)
       THEN /\ criteria' = [made |-> TRUE,
                            facet_angle |-> ResolveFacetAngle(options),
                            facet_size |-> ResolveFacetSize(options),
                            facet_distance |-> ResolveFacetDistance(options),
                            cell_radius_edge_ratio |-> CellRadiusEdgeRatio]
            /\ pc' = "bo_mesh"
            /\ err' = err
       ELSE /\ criteria' = criteria
            /\ pc' = "failed"
            /\ err' = "assertion"
    /\ UNCHANGED <<alg, surface_functor, radius, options, func, polygonizer, c3t3,
                   i, vertices, vmap, triangles, facet, calls, mesh, mesh0>>

\* the least vertex that is none of a, b, c
OtherVertex(a, b, c, nv) == CHOOSE v \in 0..nv : v \notin {a, b, c} /\ \A w \in 0..(v - 1) : w \in {a, b, c}

\* the three corners of a facet, in corner order: distinct vertices of the
\* triangulation, the infinite vertex among them or not
Corners(nv) ==
    { t \in (0..nv) \X (0..nv) \X (0..nv) : t[1] # t[2] /\ t[1] # t[3] /\ t[2] # t[3] }

\* the cell whose corner facet_index is opposite the facet with corners t.
\* exportMesh never reads the opposite corner; it is a fourth vertex, distinct
\* from the three, and the model takes the least such
CellOf(t, facet_index, nv) ==
    LET o == OtherVertex(t[1], t[2], t[3], nv)
    IN  IF facet_index = 0 THEN <<o, t[1], t[2], t[3]>>
        ELSE IF facet_index = 1 THEN <<t[1], o, t[2], t[3]>>
        ELSE IF facet_index = 2 THEN <<t[1], t[2], o, t[3]>>
        ELSE <<t[1], t[2], t[3], o>>

\* the cells a facet with opposite corner facet_index may name: four distinct
\* vertices of the triangulation
Cells(nv, facet_index) ==
    IF nv < 3 THEN {} ELSE { CellOf(t, facet_index, nv) : t \in Corners(nv) }

\* C3t3 c3t3 = CGAL::make_mesh_3<C3t3>(domain, criteria, no_perturb, no_exude).
\* The refinement evaluates the functor through CgalEval::operator(): with a
\* null func that dereference is undefined, and the build either crashes there
\* or goes on with whatever it read.
MakeMesh3(maxFinite, maxFacets) ==
    /\ pc = "bo_mesh"
    /\ \/ /\ func = NULL
          /\ pc' = "failed"
          /\ err' = "crash"
          /\ c3t3' = c3t3
       \/ /\ \E nv \in 0..maxFinite :
               \E nf \in 0..(IF Cells(nv, 0) = {} THEN 0 ELSE maxFacets) :
                 c3t3' = [made |-> TRUE, finite_vertices |-> nv, facets |-> nf]
          /\ pc' = "bo_begin"
          /\ err' = err
    /\ UNCHANGED <<alg, surface_functor, radius, options, func, polygonizer,
                   criteria, i, vertices, vmap, triangles, facet, calls, mesh,
                   mesh0>>

(***************************************************************************)
(* exportMesh(C3t3T &, MeshT &)                                            *)
(* The finite vertices are numbered 1..n in the order the finite-vertex    *)
(* iterator yields them; InfiniteVertex is the one that iterator skips.    *)
(***************************************************************************)
\* builder.begin()
C3t3Begin ==
    /\ pc = "bo_begin"
    /\ calls' = Begin(calls)
    /\ i' = 0
    /\ vmap' = << >>
    /\ pc' = "bo_vertices"
    /\ UNCHANGED <<alg, surface_functor, radius, options, func, polygonizer,
                   criteria, c3t3, vertices, triangles, facet, mesh, mesh0, err>>

\* the arguments of builder.addVertex(Vector3(p.x(), p.y(), p.z())) for the
\* finite vertex vit: its point alone
C3t3VertexArgs(vit) ==
    [pos |-> [of |-> "point", at |-> vit], index |-> NoData, normal |-> NoData]

\* vmap[vit] = vout
MapPut(map, key, value) ==
    [k \in DOMAIN map \cup {key} |-> IF k = key THEN value ELSE map[k]]

\* mutant: the finite-vertex loop stops one short
C3t3MoreVerticesShort(idx, n) == idx + 1 < n

\* vit != src.triangulation().finite_vertices_end(), vit the idx-th of n
C3t3MoreVertices(idx, n) == idx < n

\* mutant: the facet loop runs one turn too many
C3t3MoreFacetsInclusive(idx, n) == idx <= n

\* fit != src.facets_in_complex_end(), fit the idx-th of n
C3t3MoreFacets(idx, n) == idx < n

\* one turn of the finite-vertex loop
C3t3AddVertex ==
    /\ pc = "bo_vertices"
    /\ C3t3MoreVertices(i, c3t3.finite_vertices)
    /\ \E accept \in BOOLEAN :
         LET vit == i + 1
             args == C3t3VertexArgs(vit)
             r == addVertex(mesh, args, accept)
             made == Append(calls, Call("addVertex", <<args>>, r.ret))
         IN  /\ calls' = IF VertexAccepted(r.ret) THEN made ELSE Abandon(made)
             /\ IF VertexAccepted(r.ret)
                THEN /\ vmap' = MapPut(vmap, vit, r.ret)
                     /\ i' = i + 1
                     /\ mesh' = r.mesh
                     /\ UNCHANGED <<pc, err>>
                ELSE /\ pc' = "failed"
                     /\ err' = "Error"
                     /\ mesh' = Unwind(r.mesh)
                     /\ UNCHANGED <<vmap, i>>
    /\ UNCHANGED <<alg, surface_functor, radius, options, func, polygonizer,
                   criteria, c3t3, vertices, triangles, facet, mesh0>>

\* the finite-vertex loop ends
C3t3VerticesDone ==
    /\ pc = "bo_vertices"
    /\ ~C3t3MoreVertices(i, c3t3.finite_vertices)
    /\ i' = 0
    /\ pc' = "bo_facets"
    /\ UNCHANGED <<alg, surface_functor, radius, options, func, polygonizer,
                   criteria, c3t3, vertices, vmap, triangles, facet, calls, mesh,
                   mesh0, err>>

\* int vertex_indices[3]: the loop over i = 0..3 that keeps every i # facet_index
RECURSIVE SelectIndices(_, _, _)
SelectIndices(facet_index, idx, acc) ==
    IF idx >= 4 THEN acc
    ELSE SelectIndices(facet_index, idx + 1,
                       IF idx # facet_index THEN Append(acc, idx) ELSE acc)

\* mutant: the selection keeps the first three corners whatever the facet
FacetVertexIndicesFirstThree(facet_index) == <<0, 1, 2>>

\* vertex_indices after the selection loop of lines 333-339
FacetVertexIndices(facet_index) == SelectIndices(facet_index, 0, << >>)

\* whether vmap.find(vh) finds vh
Mapped(map, vh) == vh \in DOMAIN map

\* mutant: the lookup loop tests the first two corners only
FirstUnmappedOfTwo(cell, vi, map) ==
    IF \A n \in 1..2 : Mapped(map, At(cell, vi[n])) THEN 0
    ELSE CHOOSE n \in 1..2 :
           /\ ~Mapped(map, At(cell, vi[n]))
           /\ \A l \in 1..(n - 1) : Mapped(map, At(cell, vi[l]))

\* the first corner, in lookup order, that vmap.find misses; 0 when none
FirstUnmapped(cell, vi, map) ==
    IF \A n \in 1..3 : Mapped(map, At(cell, vi[n])) THEN 0
    ELSE CHOOSE n \in 1..3 :
           /\ ~Mapped(map, At(cell, vi[n]))
           /\ \A l \in 1..(n - 1) : Mapped(map, At(cell, vi[l]))

\* face_vertices[i] = existing->second, i = 0, 1, 2
FaceOfFacet(cell, vi, map) ==
    <<map[At(cell, vi[1])], map[At(cell, vi[2])], map[At(cell, vi[3])]>>

\* what face_vertices can hold when addFace is called: the three mapped
\* handles, or, were a corner used without a map entry, any three values
\* (reading through vmap.end(), or a slot never written, is undefined)
FaceLookups(cell, vi, map) ==
    IF \A n \in 1..3 : Mapped(map, At(cell, vi[n]))
    THEN {FaceOfFacet(cell, vi, map)}
    ELSE LET H == 0..(Len(mesh.verts) + 1) IN H \X H \X H

\* one turn of the facet loop
C3t3AddFace ==
    /\ pc = "bo_facets"
    /\ C3t3MoreFacets(i, c3t3.facets)
    /\ \E facet_index \in 0..3 :
       \E cell \in Cells(c3t3.finite_vertices, facet_index) :
         LET vi == FacetVertexIndices(facet_index)
         IN  /\ facet' = [cell |-> cell, index |-> facet_index]
             /\ IF FirstUnmapped(cell, vi, vmap) # 0
                THEN /\ pc' = "failed"
                     /\ err' = "Error"
                     /\ mesh' = Unwind(mesh)
                     /\ calls' = Abandon(calls)
                     /\ UNCHANGED i
                ELSE \E accept \in BOOLEAN, fv \in FaceLookups(cell, vi, vmap) :
                     LET r == addFace(mesh, fv, accept)
                         made == Append(calls, Call("addFace", fv, r.ret))
                     IN  /\ calls' = IF FaceAccepted(r.ret) THEN made ELSE Abandon(made)
                         /\ IF FaceAccepted(r.ret)
                            THEN /\ i' = i + 1
                                 /\ mesh' = r.mesh
                                 /\ UNCHANGED <<pc, err>>
                            ELSE /\ pc' = "failed"
                                 /\ err' = "Error"
                                 /\ mesh' = Unwind(r.mesh)
                                 /\ UNCHANGED i
    /\ UNCHANGED <<alg, surface_functor, radius, options, func, polygonizer,
                   criteria, c3t3, vertices, vmap, triangles, mesh0>>

\* the facet loop ends: builder.end(), and exportMesh returns
C3t3End ==
    /\ pc = "bo_facets"
    /\ ~C3t3MoreFacets(i, c3t3.facets)
    /\ calls' = End(calls)
    /\ pc' = "done"
    /\ UNCHANGED <<alg, surface_functor, radius, options, func, polygonizer,
                   criteria, c3t3, i, vertices, vmap, triangles, facet, mesh,
                   mesh0, err>>

(***************************************************************************)
(* Specifications.                                                         *)
(***************************************************************************)
\* the exports in full, under default options
Next ==
    \/ CallBloomenthal({NULL, "f_negative_at_centre"}, {45}, {DefaultOptions})
    \/ BloomenthalEvalCtor
    \/ ConstructPolygonizer
    \/ March(MaxRawVerts, MaxTris)
    \/ BloomenthalBegin
    \/ BloomenthalAddVertex
    \/ BloomenthalVerticesDone
    \/ BloomenthalAddFace
    \/ BloomenthalEnd
    \/ CallBoissonnatOudot({"f_negative_at_centre"}, {45}, {DefaultOptions})
    \/ CgalEvalCtor
    \/ DomainAndCriteria
    \/ MakeMesh3(MaxFinite, MaxFacets)
    \/ C3t3Begin
    \/ C3t3AddVertex
    \/ C3t3VerticesDone
    \/ C3t3AddFace
    \/ C3t3End

Spec == Init /\ [][Next]_vars

\* the entry points over every functor and option value, with the smallest
\* raw results that still take the exports through every step
NextEntry ==
    \/ CallBloomenthal(Functors, Radii, AllBloomenthalOptions)
    \/ BloomenthalEvalCtor
    \/ ConstructPolygonizer
    \/ March(1, 1)
    \/ BloomenthalBegin
    \/ BloomenthalAddVertex
    \/ BloomenthalVerticesDone
    \/ BloomenthalAddFace
    \/ BloomenthalEnd
    \/ CallBoissonnatOudot(Functors, {45}, AllBoissonnatOudotOptions)
    \/ CgalEvalCtor
    \/ DomainAndCriteria
    \/ MakeMesh3(3, 1)
    \/ C3t3Begin
    \/ C3t3AddVertex
    \/ C3t3VerticesDone
    \/ C3t3AddFace
    \/ C3t3End

SpecEntry == Init /\ [][NextEntry]_vars

(***************************************************************************)
(* Properties.                                                             *)
(***************************************************************************)
IsAddVertex(c) == c.op = "addVertex"
IsAddFace(c) == c.op = "addFace"

\* the addVertex calls and the addFace calls of this export, in order
VertexCalls == SelectSeq(calls, IsAddVertex)
FaceCalls == SelectSeq(calls, IsAddFace)

InExport == pc \notin {"idle", "bl_eval", "bl_polygonizer", "bl_march", "bl_begin",
                       "bo_eval", "bo_criteria", "bo_mesh", "bo_begin"}

\* C1: in both exports, each of the three vertex handles of every addFace call
\* was returned by an addVertex call made earlier in the same export and is
\* one isValidVertexHandle accepts.
C1_FaceHandlesFromThisExport ==
    \A n \in 1..Len(calls) :
      calls[n].op = "addFace" =>
        \A j \in 1..3 :
          \E m \in 1..(n - 1) :
            /\ calls[m].op = "addVertex"
            /\ calls[m].ret = calls[n].args[j]
            /\ isValidVertexHandle(calls[m].ret)

\* a C3t3 export into a mesh that already held vertices has added a face
C1_Witness ==
    /\ alg = "BoissonnatOudot"
    /\ Len(mesh0.verts) > 0
    /\ Len(FaceCalls) > 0
    /\ FaceCalls[Len(FaceCalls)].ret # InvalidHandle

\* C2: when the Bloomenthal export returns normally, it has made exactly
\* no_vertices() addVertex calls and exactly no_triangles() addFace calls, every
\* one of them accepted.
C2_CountsOnSuccess ==
    (alg = "Bloomenthal" /\ pc = "done") =>
        /\ Len(VertexCalls) = polygonizer.no_vertices
        /\ Len(FaceCalls) = polygonizer.no_triangles
        /\ \A n \in 1..Len(calls) : calls[n].ret = InvalidHandle => calls[n].op \in {"begin", "end"}

\* a Bloomenthal export of the most vertices and triangles has returned
C2_Witness ==
    /\ alg = "Bloomenthal"
    /\ pc = "done"
    /\ polygonizer.no_vertices = MaxRawVerts
    /\ polygonizer.no_triangles = MaxTris

\* C3: a call of either entry point with a null surface_functor fails with a
\* precondition error when the evaluator adapter is constructed: before the
\* polygonizer or the criteria and complex exist, and before any call on the
\* builder.
C3_NullFunctorFailsAtConstruction ==
    (surface_functor = NULL /\ pc \notin {"idle", "bl_eval", "bo_eval"}) =>
        /\ pc = "failed"
        /\ err = "assertion"
        /\ ~polygonizer.made
        /\ ~criteria.made
        /\ ~c3t3.made
        /\ calls = << >>

IsRejected(c) == c.op \in {"addVertex", "addFace"} /\ c.ret = InvalidHandle
IsAcceptedVertex(c) == c.op = "addVertex" /\ c.ret # InvalidHandle
IsAcceptedFace(c) == c.op = "addFace" /\ c.ret # InvalidHandle

\* what the accepted insertions of this export put in, in order
AcceptedVerts ==
    LET a == SelectSeq(calls, IsAcceptedVertex)
    IN  [k \in 1..Len(a) |-> a[k].args[1]]

AcceptedFaces ==
    LET a == SelectSeq(calls, IsAcceptedFace)
    IN  [k \in 1..Len(a) |-> a[k].args]

IsPrefix(a, b) == Len(a) <= Len(b) /\ \A k \in 1..Len(a) : a[k] = b[k]

\* C4: in both exports a rejected addVertex or addFace is the last call made
\* on the builder: the export has ended with an Error, made no call after it
\* (no retry, no further insertion), and the mesh holds what it held at the
\* call followed by exactly the insertions accepted before the rejection.
C4_AbortOnRejection ==
    \A n \in 1..Len(calls) :
      IsRejected(calls[n]) =>
        /\ n = Len(calls)
        /\ pc = "failed"
        /\ err = "Error"
        /\ mesh.verts = mesh0.verts \o AcceptedVerts
        /\ mesh.faces = mesh0.faces \o AcceptedFaces

\* an addFace was rejected after a face and its vertices had been accepted
C4_Witness ==
    /\ calls # << >>
    /\ IsRejected(calls[Len(calls)])
    /\ calls[Len(calls)].op = "addFace"
    /\ AcceptedFaces # << >>
    /\ pc = "failed"

\* C5: the calls the entry points make on the builder are begin, addVertex,
\* addFace and end only, and every vertex and face the mesh held when the
\* entry point was called is still there, unchanged and in its place, at every
\* later point of the call, whether it returns or aborts.
C5_Additive ==
    /\ \A n \in 1..Len(calls) : calls[n].op \in {"begin", "addVertex", "addFace", "end"}
    /\ IsPrefix(mesh0.verts, mesh.verts)
    /\ IsPrefix(mesh0.faces, mesh.faces)

\* a call on a mesh with content aborted after it had inserted something
C5_Witness ==
    /\ mesh0.verts # << >>
    /\ mesh0.faces # << >>
    /\ pc = "failed"
    /\ err = "Error"
    /\ Len(mesh.verts) > Len(mesh0.verts)

\* C6 as claimed: with an evaluator that is non-negative at the centre,
\* meshBoissonnatOudot ends with a precondition error at entry: once past the
\* construction of the domain it has failed, made no complex and inserted
\* nothing.
C6_CentreSignFatalAtEntry ==
    (alg = "BoissonnatOudot" /\ surface_functor = "f_nonnegative_at_centre"
       /\ pc \notin {"bo_eval", "bo_criteria"}) =>
        /\ pc = "failed"
        /\ err = "assertion"
        /\ ~c3t3.made
        /\ calls = << >>

\* C6 as amended: with an evaluator that is non-negative at the centre,
\* meshBoissonnatOudot signals no precondition error: the criteria are built,
\* the refinement runs, the complex it returns is exported, and the only
\* error the call can end with is the export's own Error.
C6_CentreSignNotTested ==
    (alg = "BoissonnatOudot" /\ surface_functor = "f_nonnegative_at_centre") =>
        /\ err \in {"none", "Error"}
        /\ (pc \notin {"bo_eval", "bo_criteria"} => criteria.made)
        /\ (pc \notin {"bo_eval", "bo_criteria", "bo_mesh"} => c3t3.made)
        /\ (pc = "failed" => calls # << >>)

\* with such an evaluator the call returned normally and put faces in the mesh
C6_Witness ==
    /\ alg = "BoissonnatOudot"
    /\ surface_functor = "f_nonnegative_at_centre"
    /\ pc = "done"
    /\ Len(mesh.faces) > Len(mesh0.faces)

\* C7 as claimed: the cell size the polygonizer is constructed with is
\* getRadius()/10 when cell_size < 0 and cell_size itself, unchanged,
\* otherwise; the step bound is 10 when max_search_steps < 0 and
\* max_search_steps otherwise; march gets tetrahedralize_cubes as given.
C7_SentinelsAsClaimed ==
    /\ polygonizer.made =>
         /\ polygonizer.size =
              (IF options.cell_size < 0 THEN DivDouble(radius, CellSizeDivisor)
               ELSE options.cell_size)
         /\ polygonizer.bounds =
              (IF options.max_search_steps < 0 THEN DefaultSearchSteps
               ELSE options.max_search_steps)
    /\ polygonizer.marched =>
         polygonizer.tetrahedralize_cubes = options.tetrahedralize_cubes

\* C7 as amended: the cell size the polygonizer is constructed with is the
\* single-precision value of getRadius()/10 when cell_size < 0 and the
\* single-precision value of cell_size otherwise (zero included); the step
\* bound is 10 when max_search_steps < 0 and max_search_steps otherwise (zero
\* included); march gets tetrahedralize_cubes as given.
C7_SentinelsNarrowed ==
    /\ polygonizer.made =>
         /\ options.cell_size < 0 =>
              polygonizer.size = ToFloat(DivDouble(radius, CellSizeDivisor))
         /\ options.cell_size >= 0 =>
              polygonizer.size = ToFloat(options.cell_size)
         /\ options.max_search_steps < 0 =>
              polygonizer.bounds = DefaultSearchSteps
         /\ options.max_search_steps >= 0 =>
              polygonizer.bounds = options.max_search_steps
    /\ polygonizer.marched =>
         polygonizer.tetrahedralize_cubes = options.tetrahedralize_cubes

\* march has run with zero for both options, over a ball of positive radius,
\* and with the tetrahedral mode on
C7_Witness ==
    /\ polygonizer.marched
    /\ options.cell_size = 0
    /\ options.max_search_steps = 0
    /\ options.tetrahedralize_cubes
    /\ radius > 0

\* C8: each criterion is resolved from its own option alone: facet_angle is
\* 30 when min_facet_angle < 0 and radiansToDegrees(min_facet_angle)
\* otherwise; facet_size is 0.1 when min_delaunay_radius < 0 and
\* min_delaunay_radius otherwise; facet_distance is 0.1 when
\* min_center_separation < 0 and min_center_separation otherwise;
\* cell_radius_edge_ratio is 2.0 whatever the options.
C8_CriteriaPerOption ==
    criteria.made =>
        /\ criteria.facet_angle =
             (IF options.min_facet_angle < 0 THEN DefaultFacetAngle
              ELSE radiansToDegrees(options.min_facet_angle))
        /\ criteria.facet_size =
             (IF options.min_delaunay_radius < 0 THEN DefaultFacetSize
              ELSE options.min_delaunay_radius)
        /\ criteria.facet_distance =
             (IF options.min_center_separation < 0 THEN DefaultFacetDistance
              ELSE options.min_center_separation)
        /\ criteria.cell_radius_edge_ratio = CellRadiusEdgeRatio

\* criteria were built from a negative min_delaunay_radius beside a given
\* angle and a given separation other than the default
C8_Witness ==
    /\ criteria.made
    /\ options.min_delaunay_radius < 0
    /\ options.min_facet_angle > 0
    /\ options.min_center_separation >= 0
    /\ options.min_center_separation # DefaultFacetDistance

\* C9: when make_mesh_3 returned a complex without facets, the C3t3 export
\* makes no addFace call; unless an addVertex is rejected it raises no error,
\* and from the facet loop it goes straight to builder.end(): it returns
\* normally, with begin first, one addVertex per finite vertex, and end last.
C9_ZeroFacetsIsSuccess ==
    (alg = "BoissonnatOudot" /\ c3t3.made /\ c3t3.facets = 0) =>
        /\ FaceCalls = << >>
        /\ pc = "failed" =>
             /\ err = "Error"
             /\ calls[Len(calls)].op = "addVertex"
             /\ IsRejected(calls[Len(calls)])
        /\ pc = "bo_facets" => (err = "none" /\ ENABLED C3t3End)
        /\ pc = "done" =>
             /\ err = "none"
             /\ calls[1].op = "begin"
             /\ calls[Len(calls)].op = "end"
             /\ Len(calls) = c3t3.finite_vertices + 2
             /\ Len(VertexCalls) = c3t3.finite_vertices

\* an export of the most finite vertices and no facet has returned
C9_Witness ==
    /\ alg = "BoissonnatOudot"
    /\ c3t3.made
    /\ c3t3.facets = 0
    /\ c3t3.finite_vertices = MaxFinite
    /\ pc = "done"

\* C10: in the Bloomenthal export the m-th addVertex call carries raw vertex
\* m-1: its position, its normal and m-1 as the index; vertices holds, entry for
\* entry, the handles these calls returned, one per accepted call, and the loop
\* index equals its length; the n-th addFace call is made for the n-th raw
\* triangle (v0, v1, v2) and carries (vertices[v0], vertices[v1], vertices[v2]).
C10_IndexCorrespondence ==
    alg = "Bloomenthal" =>
        /\ \A m \in 1..Len(VertexCalls) :
             VertexCalls[m].args[1] =
               [pos |-> [of |-> "get_vertex", at |-> m - 1],
                index |-> [of |-> "index", at |-> m - 1],
                normal |-> [of |-> "get_normal", at |-> m - 1]]
        /\ Len(vertices) = Len(SelectSeq(calls, IsAcceptedVertex))
        /\ \A k \in 1..Len(vertices) : vertices[k] = VertexCalls[k].ret
        /\ pc = "bl_vertices" => i = Len(vertices)
        /\ Len(FaceCalls) <= Len(triangles)
        /\ \A n \in 1..Len(FaceCalls) :
             FaceCalls[n].args = <<vertices[triangles[n][1] + 1],
                                   vertices[triangles[n][2] + 1],
                                   vertices[triangles[n][3] + 1]>>

\* two different raw triangles, the second with three different corners in
\* descending order, were both inserted
C10_Witness ==
    /\ alg = "Bloomenthal"
    /\ pc = "done"
    /\ Len(FaceCalls) = 2
    /\ triangles[1] # triangles[2]
    /\ triangles[2][1] > triangles[2][2]
    /\ triangles[2][2] # triangles[2][3]

\* whether raw index v is outside [0, size)
OutOfRange(v, size) == v < 0 \/ v >= size

\* C11: in the Bloomenthal export a raw triangle with an index below 0 or not
\* below the number of inserted vertices ends the export there with an
\* assertion failure: it is the last triangle read, no addFace call was made for
\* it (every earlier triangle has its one call, every one accepted and still
\* in the mesh), and nothing is read or inserted after it.
C11_OutOfRangeTriangleFatal ==
    alg = "Bloomenthal" =>
      \A n \in 1..Len(triangles) :
        (\E j \in 1..3 : OutOfRange(triangles[n][j], Len(vertices))) =>
          /\ n = Len(triangles)
          /\ pc = "failed"
          /\ err = "assertion"
          /\ Len(FaceCalls) = n - 1
          /\ \A k \in 1..Len(FaceCalls) : FaceCalls[k].ret # InvalidHandle
          /\ calls[Len(calls)].op # "end"
          /\ mesh.faces = mesh0.faces \o AcceptedFaces
          /\ Len(AcceptedFaces) = n - 1

\* the second raw triangle had a negative index, the first was inserted
C11_Witness ==
    /\ alg = "Bloomenthal"
    /\ Len(triangles) = 2
    /\ \E j \in 1..3 : triangles[2][j] < 0
    /\ \A j \in 1..3 : triangles[2][j] < Len(vertices)
    /\ Len(FaceCalls) = 1
    /\ pc = "failed"

\* the facet loop of the C3t3 export has been entered
FacetLoopStarted == pc \in {"bo_facets", "done"} \/ facet # NoFacet

\* C12: in the C3t3 export the m-th addVertex call inserts the m-th finite
\* vertex, so no vertex is inserted twice; when the facet loop starts and from
\* then on every finite vertex has been inserted, referenced by a facet or
\* not, and vmap has exactly one entry per finite vertex, the handle returned
\* for it; and no addVertex call follows an addFace call.
C12_EagerVerticesOnce ==
    alg = "BoissonnatOudot" =>
        /\ \A m \in 1..Len(VertexCalls) :
             VertexCalls[m].args[1].pos = [of |-> "point", at |-> m]
        /\ Len(VertexCalls) <= c3t3.finite_vertices
        /\ FacetLoopStarted =>
             /\ Len(VertexCalls) = c3t3.finite_vertices
             /\ DOMAIN vmap = 1..c3t3.finite_vertices
             /\ \A v \in 1..c3t3.finite_vertices :
                  /\ vmap[v] = VertexCalls[v].ret
                  /\ vmap[v] # InvalidHandle
        /\ \A a, b \in 1..Len(calls) :
             (a < b /\ calls[a].op = "addFace") => calls[b].op # "addVertex"

\* the facet loop of a complex with facets and the most finite vertices is
\* about to start: every vertex is in vmap and no face has been inserted
C12_Witness ==
    /\ alg = "BoissonnatOudot"
    /\ c3t3.finite_vertices = MaxFinite
    /\ c3t3.facets > 0
    /\ pc = "bo_facets"
    /\ i = 0
    /\ FaceCalls = << >>
    /\ Cardinality(DOMAIN vmap) = MaxFinite

\* the three corner indices of a facet opposite corner k, ascending
OtherCorners(k) ==
    IF k = 0 THEN <<1, 2, 3>>
    ELSE IF k = 1 THEN <<0, 2, 3>>
    ELSE IF k = 2 THEN <<0, 1, 3>>
    ELSE <<0, 1, 2>>

\* the facet the loop is at has a corner without an entry in vmap
FacetHasUnmappedCorner ==
    /\ facet # NoFacet
    /\ \E n \in 1..3 : facet.cell[OtherCorners(facet.index)[n] + 1] \notin DOMAIN vmap

\* C13: in the C3t3 export a facet with a corner that has no entry in vmap
\* ends the export there with an Error: no addFace call is made for it (the
\* calls made are those of the facets before it, every one accepted), the loop
\* index does not move past it, and builder.end() is not reached.
C13_UnmappedCornerFatal ==
    (alg = "BoissonnatOudot" /\ FacetHasUnmappedCorner) =>
        /\ pc = "failed"
        /\ err = "Error"
        /\ Len(FaceCalls) = i
        /\ \A k \in 1..Len(FaceCalls) : FaceCalls[k].ret # InvalidHandle
        /\ calls[Len(calls)].op # "end"
        /\ mesh.faces = mesh0.faces \o AcceptedFaces

\* the second facet had the infinite vertex as its last corner only, after the
\* first facet was inserted
C13_Witness ==
    /\ alg = "BoissonnatOudot"
    /\ facet # NoFacet
    /\ facet.cell[OtherCorners(facet.index)[3] + 1] = InfiniteVertex
    /\ i = 1
    /\ Len(FaceCalls) = 1
    /\ pc = "failed"

\* the raw counts of the result being exported
RawVertexCount ==
    IF alg = "Bloomenthal" THEN polygonizer.no_vertices ELSE c3t3.finite_vertices

RawFaceCount ==
    IF alg = "Bloomenthal" THEN polygonizer.no_triangles ELSE c3t3.facets

\* C14: in both exports begin is the first call on the builder and is made
\* once, no addVertex call follows an addFace call, and end is made at most
\* once and nothing follows it; when the export has returned, the calls are
\* begin, one addVertex per raw vertex, one addFace per raw triangle or facet,
\* and end, in that order.
C14_Bracket ==
    /\ calls # << >> => calls[1].op = "begin"
    /\ \A n \in 2..Len(calls) : calls[n].op # "begin"
    /\ \A n \in 1..(Len(calls) - 1) : calls[n].op # "end"
    /\ \A a, b \in 1..Len(calls) :
         (a < b /\ calls[a].op = "addFace") => calls[b].op # "addVertex"
    /\ pc = "done" =>
         /\ Len(calls) = RawVertexCount + RawFaceCount + 2
         /\ calls[Len(calls)].op = "end"
         /\ \A n \in 2..(Len(calls) - 1) :
              calls[n].op = (IF n <= RawVertexCount + 1 THEN "addVertex" ELSE "addFace")

\* a C3t3 export with vertices and the most facets has returned
C14_Witness ==
    /\ alg = "BoissonnatOudot"
    /\ pc = "done"
    /\ Len(VertexCalls) > 0
    /\ Len(FaceCalls) = MaxFacets

\* the handles in a call's arguments
HandlesOf(call) == {call.args[n] : n \in 1..Len(call.args)}

\* C15: in the C3t3 export the selection for opposite corner k in 0..3 is the
\* three indices of {0,1,2,3} minus {k}, ascending, and never a fourth; the
\* face inserted for a facet (cell, k) whose corners are mapped is made of the
\* handles vmap holds for those three corners of the cell, in that order; the
\* vertex at corner k is none of the three, and its handle, when it has one,
\* is not in the face; and one addFace call has been made per facet the loop
\* has passed, in iteration order.
C15_FacetCorners ==
    /\ \A k \in 0..3 :
         /\ FacetVertexIndices(k) = OtherCorners(k)
         /\ Len(FacetVertexIndices(k)) = 3
         /\ \A n \in 1..3 : FacetVertexIndices(k)[n] \in (0..3) \ {k}
         /\ \A n \in 1..2 : FacetVertexIndices(k)[n] < FacetVertexIndices(k)[n + 1]
    /\ (alg = "BoissonnatOudot" /\ facet # NoFacet /\ ~FacetHasUnmappedCorner) =>
         /\ Len(FaceCalls) > 0
         /\ LET last == FaceCalls[Len(FaceCalls)]
                oc == OtherCorners(facet.index)
                opp == facet.cell[facet.index + 1]
            IN  /\ Len(last.args) = 3
                /\ \A n \in 1..3 :
                     /\ facet.cell[oc[n] + 1] # opp
                     /\ last.args[n] = vmap[facet.cell[oc[n] + 1]]
                /\ opp \in DOMAIN vmap => vmap[opp] \notin HandlesOf(last)
         /\ Len(FaceCalls) = (IF pc = "failed" THEN i + 1 ELSE i)
    /\ (alg = "BoissonnatOudot" /\ pc = "bo_facets") => Len(FaceCalls) = i
    /\ (alg = "BoissonnatOudot" /\ pc = "done") => Len(FaceCalls) = c3t3.facets

\* the second facet, opposite corner 1 of its cell, has been inserted
C15_Witness ==
    /\ alg = "BoissonnatOudot"
    /\ facet # NoFacet
    /\ facet.index = 1
    /\ ~FacetHasUnmappedCorner
    /\ pc = "bo_facets"
    /\ i = 2
    /\ FaceCalls[2].ret # InvalidHandle
    /\ FaceCalls[2].args # FaceCalls[1].args

\* C16: an export that has aborted has made no end() call, whatever made it
\* abort; an end() call is in the calls only when the export has returned
\* normally.
C16_NoEndOnAbort ==
    \A n \in 1..Len(calls) :
      calls[n].op = "end" => (pc = "done" /\ err = "none" /\ n = Len(calls))

\* a Bloomenthal export aborted on a rejected addFace, between begin and end
C16_Witness ==
    /\ alg = "Bloomenthal"
    /\ pc = "failed"
    /\ err = "Error"
    /\ calls # << >>
    /\ calls[1].op = "begin"
    /\ calls[Len(calls)].op = "addFace"
    /\ calls[Len(calls)].ret = InvalidHandle

====
